---------------------------- MODULE Spec2Model ----------------------------
(***************************************************************************)
(* A model of ComDaAn's analytics engine (src/comdaan.py): the weekly      *)
(* activity aggregator, the collaboration graph builder, degree centrality,*)
(* the sliding-window centrality engine with its worker pool, the team     *)
(* size aggregator, the response analyzer and the bandwidth handed to the  *)
(* smoother; and of the git log parser (src/gitparsing.py) with its        *)
(* rulesets.                                                               *)
(*                                                                         *)
(* Time.  A timestamp is a number of ticks; TicksPerDay ticks make a day.  *)
(* Day 0 is Monday 2018-11-26, so that the inputs can straddle the         *)
(* 2018/2019 year boundary and a few month boundaries.  A datetime that    *)
(* the code truncates to a day (or to a month) is the tick of that day's   *)
(* (month's first day's) midnight.                                         *)
(*                                                                         *)
(* Tables.  A data frame is a sequence of rows (records).  The three       *)
(* columns whose names the code takes as id_col_name, author_col_name and  *)
(* date_col_name are the fields id, author and date; the item columns are  *)
(* discussion (issues), files (git), references and message_id (mail).     *)
(* A cell whose Python type the code inspects is a record [tag, v].        *)
(*                                                                         *)
(* LOWESS smoothing is numeric and is not modelled: a series holds the     *)
(* values the code hands to lowess(), with the dates it hands them with.   *)
(* The bandwidth (frac) it is handed is modelled exactly.                  *)
(***************************************************************************)
EXTENDS Integers, Sequences, FiniteSets, TLC

VARIABLES
    table,      \* the caller's data frame, as the operations leave it
    table0,     \* the data frame as the caller built it
    call,       \* the operation called and its arguments
    pc,         \* position of the controlling thread
    result,     \* what the operation returned, or that it raised
    dates,      \* centrality: the list of windows (start, end)
    results,    \* centrality: the pool's AsyncResult of each submitted window
    finished,   \* centrality: the windows in the order the workers finished them
    degrees,    \* centrality: the degree-centrality dict of each collected window
    sizes,      \* centrality: the node count of each collected window
    parser      \* git: the GitParser's repository paths and rulesets

vars == <<table, table0, call, pc, result, dates, results, finished, degrees, sizes,
          parser>>

-----------------------------------------------------------------------------
(* Bounds of the model *)

MaxEntries == 3       \* issues plus comments of an issues table
MaxRows == 3          \* rows of a git or mail table
MaxIssues == 2        \* issues of a table given to centrality
TicksPerDay == 2      \* resolution of a timestamp within a day

-----------------------------------------------------------------------------
(* Generic helpers *)

Range(s) == {s[i] : i \in DOMAIN s}

RECURSIVE SumOver(_, _)
SumOver(S, f) ==
    IF S = {} THEN 0
    ELSE LET x == CHOOSE y \in S : TRUE IN f[x] + SumOver(S \ {x}, f)

RECURSIVE Flatten(_)
Flatten(ss) == IF ss = <<>> THEN <<>> ELSE Head(ss) \o Flatten(Tail(ss))

Min(S) == CHOOSE x \in S : \A y \in S : x <= y
Max(S) == CHOOSE x \in S : \A y \in S : x >= y

\* The elements of S as a sequence sorted by Before.
RECURSIVE Listed(_)
Listed(S) ==
    IF S = {} THEN <<>>
    ELSE LET x == CHOOSE y \in S : TRUE IN <<x>> \o Listed(S \ {x})
Sorted(S, Before(_, _)) == SortSeq(Listed(S), Before)

\* The sequences that list every element of S exactly once.
Orderings(S) ==
    {s \in [1..Cardinality(S) -> S] : \A i, j \in DOMAIN s : i # j => s[i] # s[j]}

\* Python's str order on the actor names of the model.
ActorNames == <<"ann", "bob", "cy">>
Rank(a) == CHOOSE i \in DOMAIN ActorNames : ActorNames[i] = a

-----------------------------------------------------------------------------
(* Calendar *)

Day(t) == t \div TicksPerDay
Stamp(d, o) == d * TicksPerDay + o

\* datetime(year=x.year, month=x.month, day=x.day)
Midnight(t) == Day(t) * TicksPerDay

\* Monday is weekday 0; day 0 is a Monday.
Weekday(d) == d % 7

\* pandas' "W" (W-SUN) bin of a day, labelled by the Sunday that ends it.
WeekEnd(d) == d + (6 - Weekday(d))

\* A shift of four days.
FourDays == 4 * TicksPerDay

\* timedelta(days=3)
ThreeDays == 3 * TicksPerDay

\* First days of the calendar years around the inputs (2018-01-01, 2019-01-01,
\* 2020-01-01) as day numbers.
YearStarts == [y \in {2018, 2019, 2020} |-> CASE y = 2018 -> 0 - 329
                                              [] y = 2019 -> 36
                                              [] y = 2020 -> 401]
YearOf(d) == CHOOSE y \in {2018, 2019} : YearStarts[y] <= d /\ d < YearStarts[y + 1]

\* date.isocalendar()[:2]: the ISO year and week are those of the Thursday of
\* the date's Monday-to-Sunday week.
IsoCalendar(t) ==
    LET d == Day(t)
        thursday == d - Weekday(d) + 3
        y == YearOf(thursday)
    IN <<y, ((thursday - YearStarts[y]) \div 7) + 1>>

-----------------------------------------------------------------------------
(* activity (comdaan.py:123-163) *)

\* line 124: the date column is replaced, in the caller's frame, by the dates
\* truncated to the day.
TruncateToDay(df) == [i \in DOMAIN df |-> [df[i] EXCEPT !.date = Midnight(@)]]

\* lines 130-134: one row per author with the author's minimum date, sorted
\* by (date, author) descending.
StartDates(df) ==
    LET names == {df[i].author : i \in DOMAIN df}
        first == [a \in names |-> Min({df[i].date : i \in {j \in DOMAIN df : df[j].author = a}})]
        After(a, b) == \/ first[a] > first[b]
                       \/ first[a] = first[b] /\ Rank(a) > Rank(b)
    IN Sorted(names, After)

\* line 135: the (author, date, id) columns of the frame.
ReporterData(df) ==
    [i \in DOMAIN df |-> [author |-> df[i].author, date |-> df[i].date, id |-> df[i].id]]

\* line 138: explode("discussion") of an empty list leaves one row whose
\* comment is NaN, and lines 139-140 subscript it: TypeError.
ExplodeRaises(df) == \E i \in DOMAIN df : df[i].discussion.v = <<>>

\* lines 138-147: one row per comment, carrying the comment's author, the
\* comment's date truncated to the day and, as id, the index of its issue.
Commenters(df) ==
    Flatten([i \in DOMAIN df |->
        [k \in DOMAIN df[i].discussion.v |->
            [author |-> df[i].discussion.v[k].author,
             date |-> Midnight(df[i].discussion.v[k].date),
             id |-> i - 1]]])

\* lines 148-150: the comment authors, one per comment, sorted by
\* (date, author) descending.
CommenterNames(data) ==
    LET After(x, y) == \/ x.date > y.date
                       \/ x.date = y.date /\ Rank(x.author) > Rank(y.author)
        sorted == SortSeq(data, After)
    IN [i \in DOMAIN sorted |-> sorted[i].author]

\* lines 154-155: groupby([author, date]).count(): the number of ids of each
\* (author, day) that occurs.
DailyActivity(data) ==
    {[author |-> data[i].author, date |-> data[i].date,
      count |-> Cardinality({j \in DOMAIN data :
                    data[j].author = data[i].author /\ data[j].date = data[i].date})]
        : i \in DOMAIN data}

\* line 157: per author, the weekly bins from the author's first week to the
\* last, each with the sum of the daily counts that fall in it.
WeeklySums(daily) ==
    LET names == {r.author : r \in daily}
        Weeks(a) == {WeekEnd(Day(r.date)) : r \in {x \in daily : x.author = a}}
        Bins(a) == {w \in Min(Weeks(a))..Max(Weeks(a)) : Weekday(w) = 6}
        InBin(a, w) == {r \in daily : r.author = a /\ WeekEnd(Day(r.date)) = w}
    IN UNION {{[author |-> a, date |-> Stamp(w, 0),
                count |-> SumOver(InBin(a, w), [r \in InBin(a, w) |-> r.count])]
                 : w \in Bins(a)} : a \in names}

\* A filter that also drops the weeks of a single entry.
NonEmptyWeeksOffByOne(weekly) == {r \in weekly : r.count > 1}

\* line 158: weeks without entries are dropped.
NonEmptyWeeks(weekly) == {r \in weekly : r.count > 0}

\* lines 159-161: rows in (author, date) order, dates shifted back 3 days,
\* week_name the ISO (year, week) of the shifted date.
WeeklyActivity(data) ==
    LET weekly == NonEmptyWeeks(WeeklySums(DailyActivity(data)))
        Before(x, y) == \/ Rank(x.author) < Rank(y.author)
                        \/ x.author = y.author /\ x.date < y.date
        rows == Sorted(weekly, Before)
    IN [i \in DOMAIN rows |->
          [author |-> rows[i].author,
           date |-> rows[i].date - ThreeDays,
           count |-> rows[i].count,
           week_name |-> IsoCalendar(rows[i].date - ThreeDays)]]

\* Rows where the commenter rows replace the reporter rows.
ActivityDataLastRole(df, actor) ==
    IF "commenter" \in actor THEN Commenters(df) ELSE ReporterData(df)

\* lines 126-152: the rows that are counted and the author names collected,
\* for the roles in actor.
ActivityData(df, actor) ==
    (IF "reporter" \in actor THEN ReporterData(df) ELSE <<>>)
    \o (IF "commenter" \in actor THEN Commenters(df) ELSE <<>>)

AuthorsCollected(df, actor) ==
    (IF "reporter" \in actor THEN StartDates(df) ELSE <<>>)
    \o (IF "commenter" \in actor THEN CommenterNames(Commenters(df)) ELSE <<>>)

ActivityRaises(df, actor) == "commenter" \in actor /\ ExplodeRaises(df)

-----------------------------------------------------------------------------
(* Cells whose Python type the code inspects *)

\* A list: "of" is the type of its elements ("dict" for comments, "str" for
\* names and paths).
List(of, v) == [tag |-> "list", of |-> of, v |-> v]
PySet(v) == [tag |-> "set", of |-> "str", v |-> v]
Scalar(v) == [tag |-> "scalar", of |-> "str", v |-> v]

CellEq(a, b) == a.tag = b.tag /\ a.of = b.of /\ a.v = b.v

-----------------------------------------------------------------------------
(* _network_from_dataframe (comdaan.py:39-100) *)

EmptyGraph == [nodes |-> {}, edges |-> {}]

Raised(what) == [status |-> "raised", error |-> what]

\* line 43: isinstance(cell, list) and isinstance(cell[0], dict), on the first
\* row's cell.  An empty list has no element 0: IndexError.
FirstCellRaises(df, col) == df[1][col].tag = "list" /\ df[1][col].v = <<>>
IsDiscussion(df, col) ==
    df[1][col].tag = "list" /\ df[1][col].v # <<>> /\ df[1][col].of = "dict"

\* lines 44-46: every discussion becomes the list of its comments' authors.
CommentAuthors(cell) == List("str", [k \in DOMAIN cell.v |-> cell.v[k].author])

\* lines 61-69: to_set looks at the first row's cell alone and converts the
\* whole column the same way.
ToSet(df, col) ==
    IF df[1][col].tag = "set" THEN df
    ELSE IF df[1][col].tag = "list"
         THEN [i \in DOMAIN df |-> [df[i] EXCEPT ![col] = PySet(Range(@.v))]]
         ELSE [i \in DOMAIN df |-> [df[i] EXCEPT ![col] = PySet({@.v})]]

\* The frame as the builder leaves it: the assignments of lines 44, 64 and 68
\* go to the frame the caller passed.
NetworkFrame(df, target_col_name, source_col_name) ==
    IF df = <<>> \/ FirstCellRaises(df, target_col_name) THEN df
    ELSE IF IsDiscussion(df, target_col_name)
         THEN [i \in DOMAIN df |-> [df[i] EXCEPT ![target_col_name] = CommentAuthors(@)]]
         ELSE IF source_col_name = ""
              THEN ToSet(df, target_col_name)
              ELSE ToSet(ToSet(df, target_col_name), source_col_name)

\* lines 48-57: one (issue author, commenter) pair per comment, then
\* groupby(["source", "target"]).size(): the distinct ordered pairs in
\* (source, target) order, each with its number of occurrences.
DiscussionEdgeList(df, target_col_name) ==
    LET pairs == Flatten([i \in DOMAIN df |->
                    [k \in DOMAIN df[i][target_col_name].v |->
                        <<df[i].author, df[i][target_col_name].v[k]>>]])
        distinct == Range(pairs)
        Before(x, y) == \/ Rank(x[1]) < Rank(y[1])
                        \/ x[1] = y[1] /\ Rank(x[2]) < Rank(y[2])
        sorted == Sorted(distinct, Before)
    IN [i \in DOMAIN sorted |->
          [source |-> sorted[i][1], target |-> sorted[i][2],
           weight |-> Cardinality({k \in DOMAIN pairs : pairs[k] = sorted[i]})]]

\* lines 73-79: per author, the union of the author's item sets.
Targets(df, col, a) == UNION {df[i][col].v : i \in {j \in DOMAIN df : df[j].author = a}}

\* An edge list weighted by the size of the intersection of the first's source
\* items with the second's target items.
SwappedEdgeList(df, target_col_name, source_col_name) ==
    LET names == {df[i].author : i \in DOMAIN df}
        Before(x, y) == Rank(x) < Rank(y)
        index == Sorted(names, Before)
        combos == Flatten([i \in DOMAIN index |->
                    [k \in 1..(Len(index) - i) |-> <<index[i], index[i + k]>>]])
    IN [i \in DOMAIN combos |->
          [source |-> combos[i][1], target |-> combos[i][2],
           weight |-> Cardinality(Targets(df, source_col_name, combos[i][1])
                                  \cap Targets(df, target_col_name, combos[i][2]))]]

\* lines 80-90: every pair of the sorted author index, weighted by the size of
\* the intersection of the first's target items with the second's source items.
GeneralEdgeList(df, target_col_name, source_col_name) ==
    LET names == {df[i].author : i \in DOMAIN df}
        Before(x, y) == Rank(x) < Rank(y)
        index == Sorted(names, Before)
        combos == Flatten([i \in DOMAIN index |->
                    [k \in 1..(Len(index) - i) |-> <<index[i], index[i + k]>>]])
    IN [i \in DOMAIN combos |->
          [source |-> combos[i][1], target |-> combos[i][2],
           weight |-> Cardinality(Targets(df, target_col_name, combos[i][1])
                                  \cap Targets(df, source_col_name, combos[i][2]))]]

\* line 92: from_pandas_edgelist adds the rows to an undirected Graph in
\* order: the nodes are the rows' endpoints, and a later row for the same two
\* endpoints replaces the weight of an earlier one.
FromPandasEdgelist(edge_list) ==
    LET Ends(i) == {edge_list[i].source, edge_list[i].target}
        Last(i) == \A j \in DOMAIN edge_list : Ends(j) = Ends(i) => j <= i
    IN [nodes |-> UNION {Ends(i) : i \in DOMAIN edge_list},
        edges |-> {[ends |-> Ends(i), weight |-> edge_list[i].weight]
                      : i \in {j \in DOMAIN edge_list : Last(j)}}]

\* A builder that returns the graph of the edge list as it is.
KeepAllEdges(graph) == graph

\* lines 93-98: the edges of weight 0 are removed, the nodes stay.
RemoveZeroEdges(graph) ==
    [graph EXCEPT !.edges = {e \in graph.edges : e.weight # 0}]

\* The graph (or the exception) of a frame.
NetworkFromDataframe(df, target_col_name, source_col_name) ==
    IF df = <<>> THEN [status |-> "returned", graph |-> EmptyGraph]
    ELSE IF FirstCellRaises(df, target_col_name) THEN Raised("IndexError")
    ELSE LET frame == NetworkFrame(df, target_col_name, source_col_name)
             edge_list ==
                IF IsDiscussion(df, target_col_name)
                THEN DiscussionEdgeList(frame, target_col_name)
                ELSE GeneralEdgeList(frame, target_col_name,
                        IF source_col_name = "" THEN target_col_name ELSE source_col_name)
         IN [status |-> "returned",
             graph |-> RemoveZeroEdges(FromPandasEdgelist(edge_list))]

-----------------------------------------------------------------------------
(* nx.degree_centrality, as network (comdaan.py:218) and centrality
   (comdaan.py:268) call it *)

\* A value is the fraction num/den.
Frac(n, d) == [num |-> n, den |-> d]

\* networkx counts a self-loop twice in the degree of its node.
Degree(graph, n) ==
    Cardinality({e \in graph.edges : n \in e.ends})
    + Cardinality({e \in graph.edges : e.ends = {n}})

\* A centrality that scales the degree by 1 / (number of nodes).
DegreeOverNodeCount(graph) ==
    [n \in graph.nodes |-> Frac(Degree(graph, n), Cardinality(graph.nodes))]

\* A graph of at most one node gets 1 for its node; otherwise the degree is
\* scaled by 1 / (number of nodes - 1).
DegreeCentrality(graph) ==
    IF Cardinality(graph.nodes) <= 1
    THEN [n \in graph.nodes |-> Frac(1, 1)]
    ELSE [n \in graph.nodes |-> Frac(Degree(graph, n), Cardinality(graph.nodes) - 1)]

-----------------------------------------------------------------------------
(* Input tables.  Every table has at least one row. *)

\* The issues tables of exactly n entries (issues plus comments), the issue's
\* (author, date) drawn from H and each comment from C: a table of n - 1
\* entries with one more issue, or with one more comment on its last issue.
RECURSIVE IssueTablesOf(_, _, _)
IssueTablesOf(H, C, n) ==
    IF n = 0 THEN {<<>>}
    ELSE LET shorter == IssueTablesOf(H, C, n - 1)
         IN {Append(t, [id |-> 0, author |-> h.author, date |-> h.date,
                        discussion |-> List("dict", <<>>)]) : t \in shorter, h \in H}
            \cup {[t EXCEPT ![Len(t)].discussion.v = Append(@, c)]
                    : t \in shorter \ {<<>>}, c \in C}

\* The non-empty issues tables of at most n entries.
IssueTables(H, C, n) == UNION {IssueTablesOf(H, C, k) : k \in 1..n}

\* The tables of at most n rows drawn from R.
RECURSIVE RowTables(_, _)
RowTables(R, n) ==
    IF n = 0 THEN {<<>>}
    ELSE {<<>>} \cup {<<r>> \o t : r \in R, t \in RowTables(R, n - 1)}

\* ids are unique: the row's position.
WithIds(t) == [i \in DOMAIN t |-> [t[i] EXCEPT !.id = i]]

Headers(authors, stamps) == {[author |-> a, date |-> d] : a \in authors, d \in stamps}
Comments(authors, stamps, flags) ==
    {[author |-> a, date |-> d, system |-> f] : a \in authors, d \in stamps, f \in flags}

\* Sunday 2018-12-30 (afternoon), Monday 2018-12-31 and Wednesday 2019-01-02
\* (afternoon): two ISO weeks, on either side of the year boundary.
ActivityStamps == {Stamp(34, 1), Stamp(35, 0), Stamp(37, 1)}

ActivityTables ==
    {WithIds(t) : t \in IssueTables(Headers({"ann", "bob"}, ActivityStamps),
                                    Comments({"ann", "bob"}, ActivityStamps, {FALSE}),
                                    MaxEntries)}

\* network does not read the dates.
NetworkStamp == Stamp(40, 1)

NetworkIssueTables ==
    {WithIds(t) : t \in IssueTables(Headers({"ann", "bob", "cy"}, {NetworkStamp}),
                                    Comments({"ann", "bob", "cy"}, {NetworkStamp}, {FALSE}),
                                    MaxEntries)}

\* gitparsing.py:184-187: files is the list of the commit's paths.
RepositoryTables ==
    {WithIds(t) : t \in RowTables(
        {[id |-> 0, author |-> a, date |-> NetworkStamp, files |-> List("str", f)]
            : a \in {"ann", "bob", "cy"}, f \in {<<"f">>, <<"g">>, <<"f", "g">>}},
        MaxRows) \ {<<>>}}

\* A mail has its own message id (a string) and the set of ids it references.
MessageIds == <<"m1", "m2", "m3", "m4", "m5">>
MailTables ==
    {[i \in DOMAIN t |-> [t[i] EXCEPT !.id = i, !.message_id = Scalar(MessageIds[i])]]
        : t \in RowTables(
            {[id |-> 0, author |-> a, date |-> NetworkStamp,
              message_id |-> Scalar(""), references |-> PySet(r)]
                : a \in {"ann", "bob", "cy"}, r \in SUBSET {"m1", "m2"}},
            MaxRows) \ {<<>>}}

-----------------------------------------------------------------------------
(* The calls *)

NoCall == [op |-> "none"]
NoResult == [status |-> "none"]
NoParser == [paths |-> <<>>, rulesets |-> <<>>]

Idle ==
    /\ call = NoCall /\ pc = "ready" /\ result = NoResult
    /\ dates = <<>> /\ results = <<>> /\ finished = <<>>
    /\ degrees = <<>> /\ sizes = <<>>
    /\ parser = NoParser

\* An analysis that is not centrality leaves the pool's variables alone, and
\* no analysis touches the git parser.
PoolUnchanged == UNCHANGED <<dates, results, finished, degrees, sizes, parser>>

\* line 153: list(set(authors)) lists each name once, in the iteration order
\* of a set of str, which depends on the process's string hash seed: any order.
SetOrders(authors) == Orderings(Range(authors))

\* activity(dataframe, "id", "author", "date", actor)
Activity(actor) ==
    /\ pc = "ready"
    /\ call' = [op |-> "activity", actor |-> actor]
    /\ table' = TruncateToDay(table)
    /\ IF ActivityRaises(table', actor)
       THEN result' = Raised("TypeError")
       ELSE \E authors \in SetOrders(AuthorsCollected(table', actor)) :
               result' = [status |-> "returned",
                          dataframe |-> WeeklyActivity(ActivityData(table', actor)),
                          authors |-> authors]
    /\ pc' = "done"
    /\ UNCHANGED table0
    /\ PoolUnchanged

\* network(dataframe, author_col_name, target_col_name, source_col_name)
Network(target_col_name, source_col_name) ==
    /\ pc = "ready"
    /\ target_col_name \in DOMAIN table[1]
    /\ source_col_name # "" => source_col_name \in DOMAIN table[1]
    /\ call' = [op |-> "network", target_col_name |-> target_col_name,
                source_col_name |-> source_col_name]
    /\ table' = NetworkFrame(table, target_col_name, source_col_name)
    /\ LET built == NetworkFromDataframe(table, target_col_name, source_col_name)
       IN result' = IF built.status = "raised" THEN built
                    ELSE [status |-> "returned", graph |-> built.graph,
                          dataframe |-> DegreeCentrality(built.graph)]
    /\ pc' = "done"
    /\ UNCHANGED table0
    /\ PoolUnchanged

NetworkIssues == Network("discussion", "")
NetworkRepository == Network("files", "")
NetworkMail == Network("references", "message_id")

-----------------------------------------------------------------------------
(* Specifications *)

Roles == {{"reporter"}, {"commenter"}, {"reporter", "commenter"}}

InitActivity == table \in ActivityTables /\ table0 = table /\ Idle
NextActivity == \E actor \in Roles : Activity(actor)
SpecActivity == InitActivity /\ [][NextActivity]_vars

InitNetwork ==
    /\ \/ table \in NetworkIssueTables
       \/ table \in RepositoryTables
       \/ table \in MailTables
    /\ table0 = table /\ Idle
NextNetwork == NetworkIssues \/ NetworkRepository \/ NetworkMail
SpecNetwork == InitNetwork /\ [][NextNetwork]_vars

-----------------------------------------------------------------------------
(* centrality (comdaan.py:225-307) *)

\* First days of 2018-11 .. 2019-06 as day numbers.
MonthStarts == <<0 - 25, 5, 36, 67, 95, 126, 156, 187>>
MonthIndex(d) ==
    CHOOSE i \in 1..(Len(MonthStarts) - 1) : MonthStarts[i] <= d /\ d < MonthStarts[i + 1]

\* datetime(year=x.year, month=x.month, day=1)
FirstOfMonth(t) == Stamp(MonthStarts[MonthIndex(Day(t))], 0)

\* date + relativedelta(months=k), for a date that is the first of a month.
AddMonths(t, k) == Stamp(MonthStarts[MonthIndex(Day(t)) + k], 0)

\* relativedelta(weeks=1)
Week == 7 * TicksPerDay

\* line 228: list(dataframe[author_col_name].sort_values().unique())
SortedAuthors(df) ==
    LET Before(x, y) == Rank(x) < Rank(y)
    IN Sorted({df[i].author : i \in DOMAIN df}, Before)

\* A test that takes every name that is given for a known one.
NameNotGiven(df, name) == name = ""

\* line 229: not name or authors.count(name) == 0
NameUnknown(df, name) == name = "" \/ name \notin Range(SortedAuthors(df))

\* line 231: the date column is replaced, in the caller's frame, by the first
\* day of each date's month.
TruncateToMonth(df) == [i \in DOMAIN df |-> [df[i] EXCEPT !.date = FirstOfMonth(@)]]

\* lines 232-246: the windows (center - delta, center + delta), one per date
\* of rrule(freq, dtstart=min_date + delta, until=max_date - delta); delta is
\* one month, or one week when max_date - 2 months < min_date.
RruleWindows(df) ==
    LET min_date == Min({df[i].date : i \in DOMAIN df})
        max_date == Max({df[i].date : i \in DOMAIN df})
    IN IF AddMonths(max_date, 0 - 2) < min_date
       THEN LET dtstart == min_date + Week
                until == max_date - Week
                n == IF until < dtstart THEN 0 ELSE ((until - dtstart) \div Week) + 1
            IN [k \in 1..n |-> <<dtstart + (k - 1) * Week - Week,
                                 dtstart + (k - 1) * Week + Week>>]
       ELSE LET first == MonthIndex(Day(min_date)) + 1
                last == MonthIndex(Day(max_date)) - 1
                n == IF last < first THEN 0 ELSE last - first + 1
            IN [k \in 1..n |-> <<Stamp(MonthStarts[first + k - 2], 0),
                                 Stamp(MonthStarts[first + k], 0)>>]

\* lines 249-252: dates[-1] of an empty list raises IndexError; otherwise one
\* more window is appended when the last one ends before the last date.
WindowsRaise(df) == RruleWindows(df) = <<>>
WindowDates(df) ==
    LET w == RruleWindows(df)
        last_date_in_df == Max({df[i].date : i \in DOMAIN df})
        last_date_in_list == w[Len(w)][2]
    IN IF last_date_in_list < last_date_in_df
       THEN Append(w, <<last_date_in_list, last_date_in_df>>)
       ELSE w

\* lines 259, 263: dataframe.loc[mask], the rows dated within the window.
Slice(df, window) ==
    LET InWindow(row) == row.date >= window[1] /\ row.date <= window[2]
    IN SelectSeq(df, InWindow)

\* A series dated by the second date of each window's pair.
WindowEnds(windows) == [i \in DOMAIN windows |-> windows[i][2]]

\* line 271: the date of a window in the series is the first of its pair.
DateX(windows) == [i \in DOMAIN windows |-> windows[i][1]]

\* lines 273-275: from_records makes one column per name that is a key of
\* some window's dict; fillna gives 0.0 where a window's dict lacks the name.
NodeColumns(degs) == UNION {DOMAIN degs[i] : i \in DOMAIN degs}
NodesValue(degs, i, name) ==
    IF name \in DOMAIN degs[i] THEN degs[i][name] ELSE Frac(0, 1)

\* lines 277, 303-305: the name's column against the window dates; the column
\* does not exist (KeyError) when no window's graph has the name as a node.
CentralityRaises(degs, name) == name \notin NodeColumns(degs)
CentralityFrame(degs, windows, name) ==
    [i \in DOMAIN degs |-> [date |-> DateX(windows)[i], value |-> NodesValue(degs, i, name)]]

\* lines 279-284: the node counts over their maximum, against the window dates.
SizeFrame(szs, windows) ==
    [i \in DOMAIN szs |-> [date |-> DateX(windows)[i],
                           value |-> Frac(szs[i], Max(Range(szs)))]]

\* lines 286-301: the name's entries per date of the frame (0 on the dates
\* where only others have entries), over the name's maximum, one row per
\* distinct date of the frame in ascending order.
ActivityFrame(df, name) ==
    LET Count(d) == Cardinality({i \in DOMAIN df : df[i].author = name /\ df[i].date = d})
        days == {df[i].date : i \in DOMAIN df}
        Before(x, y) == x < y
        index == Sorted(days, Before)
    IN [i \in DOMAIN index |->
          [date |-> index[i],
           value |-> Frac(Count(index[i]), Max({Count(d) : d \in days}))]]

\* lines 228-252: the name-discovery return, or the windows.
CentralityCall(target_col_name, source_col_name, name) ==
    /\ pc = "ready"
    /\ target_col_name \in DOMAIN table[1]
    /\ call' = [op |-> "centrality", target_col_name |-> target_col_name,
                source_col_name |-> source_col_name, name |-> name]
    /\ IF NameUnknown(table, name)
       THEN /\ result' = [status |-> "returned", kind |-> "authors",
                          authors |-> SortedAuthors(table)]
            /\ pc' = "done"
            /\ UNCHANGED <<table, dates>>
       ELSE /\ table' = TruncateToMonth(table)
            /\ IF WindowsRaise(table')
               THEN result' = Raised("IndexError") /\ pc' = "done" /\ UNCHANGED dates
               ELSE dates' = WindowDates(table') /\ pc' = "submit" /\ UNCHANGED result
    /\ UNCHANGED <<table0, results, finished, degrees, sizes, parser>>

\* lines 258-265: one apply_async per window, in window order, with the
\* window's slice of the frame as argument.
Submit ==
    /\ pc = "submit"
    /\ results' = Append(results, [state |-> "pending",
                                   args |-> Slice(table, dates[Len(results) + 1])])
    /\ pc' = IF Len(results') = Len(dates) THEN "collect" ELSE "submit"
    /\ UNCHANGED <<table, table0, call, result, dates, finished, degrees, sizes, parser>>

\* A pool worker finishes a submitted window, in any order.  The pool lives
\* until the with block is left.
WorkerFinish(i) ==
    /\ pc \in {"submit", "collect"}
    /\ i \in DOMAIN results
    /\ results[i].state = "pending"
    /\ results' = [results EXCEPT ![i] =
            [state |-> "ready",
             value |-> NetworkFromDataframe(results[i].args, call.target_col_name,
                                            call.source_col_name)]]
    /\ finished' = Append(finished, i)
    /\ UNCHANGED <<table, table0, call, pc, result, dates, degrees, sizes, parser>>

\* lines 267-269, for a result that is ready: get() re-raises in the caller
\* what the worker raised, and nothing is returned; otherwise the graph's
\* degree centralities and node count are appended.
Get(r) ==
    IF r.value.status = "raised"
    THEN /\ result' = r.value
         /\ pc' = "done"
         /\ UNCHANGED <<degrees, sizes>>
    ELSE /\ degrees' = Append(degrees, DegreeCentrality(r.value.graph))
         /\ sizes' = Append(sizes, Cardinality(r.value.graph.nodes))
         /\ UNCHANGED <<pc, result>>

\* A collection loop that takes the results as the workers complete them.
CollectAsCompleted ==
    /\ pc = "collect"
    /\ Len(degrees) < Len(dates)
    /\ Len(degrees) < Len(finished)
    /\ Get(results[finished[Len(degrees) + 1]])
    /\ UNCHANGED <<table, table0, call, dates, results, finished, parser>>

\* A collection loop that takes a failed window for an empty graph.
CollectSwallowing ==
    /\ pc = "collect"
    /\ Len(degrees) < Len(dates)
    /\ LET r == results[Len(degrees) + 1]
       IN /\ r.state = "ready"
          /\ Get(IF r.value.status = "raised"
                 THEN [r EXCEPT !.value = [status |-> "returned", graph |-> EmptyGraph]]
                 ELSE r)
    /\ UNCHANGED <<table, table0, call, dates, results, finished, parser>>

\* lines 266-269: the results are taken in the order they were submitted in;
\* result.get() blocks until the window's worker is done.
Collect ==
    /\ pc = "collect"
    /\ Len(degrees) < Len(dates)
    /\ results[Len(degrees) + 1].state = "ready"
    /\ Get(results[Len(degrees) + 1])
    /\ UNCHANGED <<table, table0, call, dates, results, finished, parser>>

\* lines 271-307: the three frames.
CentralityReturn ==
    /\ pc = "collect"
    /\ Len(degrees) = Len(dates)
    /\ result' = IF CentralityRaises(degrees, call.name) THEN Raised("KeyError")
                 ELSE [status |-> "returned", kind |-> "series",
                       centrality |-> CentralityFrame(degrees, dates, call.name),
                       activity |-> ActivityFrame(table, call.name),
                       size |-> SizeFrame(sizes, dates)]
    /\ pc' = "done"
    /\ UNCHANGED <<table, table0, call, dates, results, finished, degrees, sizes,
                   parser>>

\* Saturday 2019-01-05 (afternoon), Friday 2019-02-01 and Friday 2019-04-05
\* (afternoon): one month alone, two months in a row, or months further apart.
CentralityStamps == {Stamp(40, 1), Stamp(67, 0), Stamp(130, 1)}

\* An issue has no comment, or one comment by either actor.
CentralityDiscussions ==
    {<<>>} \cup {<<c>> : c \in Comments({"ann", "bob"}, {NetworkStamp}, {FALSE})}

CentralityTables ==
    {WithIds(t) : t \in RowTables(
        {[id |-> 0, author |-> h.author, date |-> h.date, discussion |-> List("dict", d)]
            : h \in Headers({"ann", "bob"}, CentralityStamps), d \in CentralityDiscussions},
        MaxIssues) \ {<<>>}}

InitCentrality == table \in CentralityTables /\ table0 = table /\ Idle
NextCentrality ==
    \/ \E name \in {"", "ann", "cy"} : CentralityCall("discussion", "", name)
    \/ Submit
    \/ \E i \in DOMAIN results : WorkerFinish(i)
    \/ Collect
    \/ CentralityReturn
SpecCentrality == InitCentrality /\ [][NextCentrality]_vars

-----------------------------------------------------------------------------
(* Properties *)

Returned == pc = "done" /\ result.status = "returned"

\* The number of comments of an issues table.
RECURSIVE CommentCount(_)
CommentCount(df) ==
    IF df = <<>> THEN 0 ELSE Len(Head(df).discussion.v) + CommentCount(Tail(df))

RECURSIVE CountTotal(_)
CountTotal(rows) == IF rows = <<>> THEN 0 ELSE Head(rows).count + CountTotal(Tail(rows))

\* C1: the counts of the table that activity returns add up to the number of
\* source entries of the selected roles: the issues for reporter, the comments
\* for commenter, both for both.
C1_CountsSumToEntries ==
    (Returned /\ call.op = "activity") =>
        CountTotal(result.dataframe) =
            (IF "reporter" \in call.actor THEN Len(table0) ELSE 0)
            + (IF "commenter" \in call.actor THEN CommentCount(table0) ELSE 0)

\* Both roles, with an issue and a comment of one actor merged into one week.
C1_Witness ==
    /\ Returned /\ call.op = "activity"
    /\ call.actor = {"reporter", "commenter"}
    /\ \E i \in DOMAIN result.dataframe : result.dataframe[i].count >= 2
    /\ Len(result.dataframe) >= 2

\* Two frames hold the same values: every row's id, author and timestamp and
\* every item cell.
SameRow(r, q) ==
    /\ DOMAIN r = DOMAIN q
    /\ r.id = q.id /\ r.author = q.author /\ r.date = q.date
    /\ \A col \in DOMAIN r \ {"id", "author", "date"} : CellEq(r[col], q[col])
SameFrame(df, dg) == Len(df) = Len(dg) /\ \A i \in DOMAIN df : SameRow(df[i], dg[i])

\* C2: an analysis operation leaves the event table it is given as it was:
\* after the call every row's timestamp and item columns hold the values they
\* held before it.
C2_TableUnchanged == pc = "done" => SameFrame(table, table0)

\* The earliest day of an actor's entries among the roles selected.
FirstActivity(df, actor, a) ==
    Min({Midnight(df[i].date) : i \in {j \in DOMAIN df : "reporter" \in actor /\ df[j].author = a}}
        \cup UNION {{Midnight(c.date) : c \in {x \in Range(df[i].discussion.v) : x.author = a}}
                      : i \in {j \in DOMAIN df : "commenter" \in actor}})

ActorsOf(df, actor) ==
    {df[i].author : i \in {j \in DOMAIN df : "reporter" \in actor}}
    \cup {c.author : c \in UNION {Range(df[i].discussion.v) :
                                    i \in {j \in DOMAIN df : "commenter" \in actor}}}

\* C3: the actor list that activity returns holds each distinct actor once,
\* by earliest activity date descending and, among equal dates, by name
\* descending.
C3_ActorsOrdered ==
    (Returned /\ call.op = "activity") =>
        /\ Range(result.authors) = ActorsOf(table0, call.actor)
        /\ Len(result.authors) = Cardinality(ActorsOf(table0, call.actor))
        /\ \A i, j \in DOMAIN result.authors : i < j =>
              LET di == FirstActivity(table0, call.actor, result.authors[i])
                  dj == FirstActivity(table0, call.actor, result.authors[j])
              IN \/ di > dj
                 \/ di = dj /\ Rank(result.authors[i]) > Rank(result.authors[j])

\* The graph of the i-th window, built from the frame as centrality sliced it.
WindowBuild(i) ==
    NetworkFromDataframe(Slice(table, dates[i]), call.target_col_name, call.source_col_name)

\* C4: the i-th collected degree-centrality dict and node count, and the i-th
\* entry of the centrality and size series, come from the i-th window's graph,
\* in whatever order the workers finished.
C4_ResultsInWindowOrder ==
    /\ \A i \in DOMAIN degrees :
          /\ WindowBuild(i).status = "returned"
          /\ degrees[i] = DegreeCentrality(WindowBuild(i).graph)
          /\ sizes[i] = Cardinality(WindowBuild(i).graph.nodes)
    /\ (Returned /\ call.op = "centrality" /\ result.kind = "series") =>
          /\ Len(result.centrality) = Len(dates) /\ Len(result.size) = Len(dates)
          /\ \A i \in DOMAIN dates :
                /\ result.centrality[i].value =
                      LET dc == DegreeCentrality(WindowBuild(i).graph)
                      IN IF call.name \in DOMAIN dc THEN dc[call.name] ELSE Frac(0, 1)
                /\ result.size[i].value.num = Cardinality(WindowBuild(i).graph.nodes)

\* The series were returned although a later window's worker finished before
\* an earlier one's, and the windows' graphs differ.
C4_Witness ==
    /\ Returned /\ call.op = "centrality" /\ result.kind = "series"
    /\ \E i, j \in DOMAIN finished : i < j /\ finished[i] > finished[j]
    /\ \E i, j \in DOMAIN degrees : degrees[i] # degrees[j] /\ sizes[i] # sizes[j]

\* C5: when the graph build of one window raises, centrality raises and
\* returns no series, whatever the other windows' workers returned.
C5_WorkerFailureFailsAll ==
    (/\ pc = "done" /\ call.op = "centrality" /\ dates # <<>>
     /\ \E i \in DOMAIN dates : WindowBuild(i).status = "raised")
        => result.status = "raised"

\* The second or a later window failed, after an earlier one had been
\* collected and while others had finished.
C5_Witness ==
    /\ pc = "done" /\ call.op = "centrality" /\ dates # <<>>
    /\ result.status = "raised" /\ result.error = "IndexError"
    /\ Len(degrees) >= 1 /\ Len(finished) >= 2
    /\ \E i \in DOMAIN degrees : degrees[i] # <<>>

\* C6: without a name, or with a name that is not in the actor column,
\* centrality returns the distinct actors of the table in ascending order,
\* submits no window and computes no series.
C6_NameDiscovery ==
    (/\ call.op = "centrality"
     /\ (call.name = "" \/ \A i \in DOMAIN table0 : table0[i].author # call.name))
        => /\ pc = "done" /\ result.status = "returned" /\ result.kind = "authors"
           /\ Range(result.authors) = {table0[i].author : i \in DOMAIN table0}
           /\ \A i, j \in DOMAIN result.authors :
                 i < j => Rank(result.authors[i]) < Rank(result.authors[j])
           /\ dates = <<>> /\ results = <<>> /\ degrees = <<>> /\ sizes = <<>>

\* A name was given that no row has as author, in a table of two authors.
C6_Witness ==
    /\ call.op = "centrality" /\ call.name = "cy" /\ pc = "done"
    /\ Len(result.authors) = 2

\* C7: the graph built from a non-empty slice has every actor of the slice as
\* a node, also an actor without edges and an actor alone in the slice.
C7_AllActorsAreNodes ==
    (Returned /\ call.op = "network") =>
        {table0[i].author : i \in DOMAIN table0} \subseteq result.graph.nodes

\* C8: the graph that the builder returns has no edge of weight 0, in the
\* discussion branch and in the general branch.
C8_NoZeroWeightEdge ==
    (Returned /\ call.op = "network") => \A e \in result.graph.edges : e.weight # 0

\* The general branch, three actors, two of them without common item.
C8_Witness ==
    /\ Returned /\ call.op = "network" /\ call.target_col_name = "files"
    /\ Cardinality(result.graph.nodes) = 3
    /\ Cardinality(result.graph.edges) = 2

\* The degree of a node of the returned graph, as the graph's edges give it:
\* the edges to other nodes, and the self-loops, which count twice.
Neighbours(graph, n) == {e \in graph.edges : n \in e.ends /\ e.ends # {n}}
SelfLoops(graph, n) == {e \in graph.edges : e.ends = {n}}

\* C9: network reports, for a node, its degree over (node count - 1): 0.0 for
\* the node of a single-node graph and 1.0 for both nodes of a connected
\* two-node graph.
C9_DegreeOverNodesMinusOne ==
    (Returned /\ call.op = "network") =>
        LET g == result.graph
            n == Cardinality(g.nodes)
        IN \A v \in g.nodes :
              /\ n = 1 => result.dataframe[v].num = 0
              /\ n >= 2 => result.dataframe[v].num * (n - 1)
                            = (Cardinality(Neighbours(g, v)) + 2 * Cardinality(SelfLoops(g, v)))
                              * result.dataframe[v].den
              /\ (n = 2 /\ Neighbours(g, v) # {})
                    => result.dataframe[v].num = result.dataframe[v].den

\* C9, amended: for a graph of two or more nodes the value is the node's
\* degree over (node count - 1), a self-loop counting twice in the degree; for
\* the node of a single-node graph it is 1; both nodes of a two-node graph
\* joined by an edge get 1.0 when neither has a self-loop.
C9_DegreeCentralityOfNetwork ==
    (Returned /\ call.op = "network") =>
        LET g == result.graph
            n == Cardinality(g.nodes)
        IN /\ DOMAIN result.dataframe = g.nodes
           /\ \A v \in g.nodes :
              /\ n = 1 => result.dataframe[v].num = result.dataframe[v].den
              /\ n >= 2 => result.dataframe[v].num * (n - 1)
                            = (Cardinality(Neighbours(g, v)) + 2 * Cardinality(SelfLoops(g, v)))
                              * result.dataframe[v].den
              /\ (n = 2 /\ Neighbours(g, v) # {} /\ \A u \in g.nodes : SelfLoops(g, u) = {})
                    => result.dataframe[v].num = result.dataframe[v].den
           /\ \A v \in g.nodes : result.dataframe[v].den > 0

\* A two-node graph whose nodes are joined, one of them with a self-loop.
C9_Witness ==
    /\ Returned /\ call.op = "network"
    /\ Cardinality(result.graph.nodes) = 2
    /\ \E v \in result.graph.nodes :
          /\ Neighbours(result.graph, v) # {} /\ SelfLoops(result.graph, v) # {}
          /\ result.dataframe[v].num = 3 * result.dataframe[v].den

SeriesDates(series) == [i \in DOMAIN series |-> series[i].date]

SeriesReturned == Returned /\ call.op = "centrality" /\ result.kind = "series"

-----------------------------------------------------------------------------
(* activity, one role against both *)

\* The table activity returns for the roles in actor on the frame df.
ActivityOf(df, actor) == WeeklyActivity(ActivityData(TruncateToDay(df), actor))

\* The (actor, week) pairs of an activity table.
ActorWeeks(rows) == {<<rows[i].author, rows[i].date>> : i \in DOMAIN rows}

BothRolesReturned ==
    Returned /\ call.op = "activity" /\ call.actor = {"reporter", "commenter"}

\* C11: with both roles, the activity table has as many rows as the table for
\* reporter alone and the table for commenter alone have together.
C11_RowCountsAdd ==
    BothRolesReturned =>
        Len(result.dataframe) = Len(ActivityOf(table0, {"reporter"}))
                                + Len(ActivityOf(table0, {"commenter"}))

\* C11, amended: with both roles, the activity table has one row per
\* (actor, week) that has a row for reporter alone or for commenter alone: the
\* two row counts together, less the (actor, week) pairs the two tables share.
C11_RowsAreUnionOfRoles ==
    BothRolesReturned =>
        LET reporters == ActorWeeks(ActivityOf(table0, {"reporter"}))
            commenters == ActorWeeks(ActivityOf(table0, {"commenter"}))
        IN /\ ActorWeeks(result.dataframe) = reporters \cup commenters
           /\ Len(result.dataframe) = Cardinality(reporters \cup commenters)
           /\ Len(result.dataframe) =
                 Len(ActivityOf(table0, {"reporter"})) + Len(ActivityOf(table0, {"commenter"}))
                 - Cardinality(reporters \cap commenters)

\* An actor reported and commented in one week, and another row exists.
C11_Witness ==
    /\ BothRolesReturned
    /\ ActorWeeks(ActivityOf(table0, {"reporter"}))
          \cap ActorWeeks(ActivityOf(table0, {"commenter"})) # {}
    /\ Len(result.dataframe) >= 2

-----------------------------------------------------------------------------
(* teamsize (comdaan.py:166-212) *)

\* lines 171-173, 188-190: x.date() drops the time of day,
\* to_period("W").to_timestamp() gives the start of the date's Monday-to-Sunday
\* week, the Monday at midnight, and three days are subtracted from it.
WeekStart(d) == d - Weekday(d)
TeamsizeBucket(t) == Stamp(WeekStart(Day(t)), 0) - ThreeDays

\* lines 171-173: the date column is replaced, in the caller's frame, by the
\* bucket dates.
BucketDates(df) == [i \in DOMAIN df |-> [df[i] EXCEPT !.date = TeamsizeBucket(@)]]

\* lines 181-191: one row per comment, carrying the comment's author, the
\* bucket date of the comment's date and, as id, the index of its issue.
TeamsizeComments(df) ==
    Flatten([i \in DOMAIN df |->
        [k \in DOMAIN df[i].discussion.v |->
            [author |-> df[i].discussion.v[k].author,
             date |-> TeamsizeBucket(df[i].discussion.v[k].date),
             id |-> i - 1]]])

\* A count that gives every date the number of rows of the whole table.
CountAllRows(rows) ==
    LET Before(x, y) == x < y
        index == Sorted({rows[i].date : i \in DOMAIN rows}, Before)
    IN [k \in DOMAIN index |->
          [date |-> index[k], entry_count |-> Len(rows), author_count |-> Len(rows)]]

\* lines 175-178, 193-196: groupby(date): per date, in ascending order, the
\* number of ids and the number of distinct authors.
CountByDate(rows) ==
    LET Before(x, y) == x < y
        index == Sorted({rows[i].date : i \in DOMAIN rows}, Before)
        Group(d) == {i \in DOMAIN rows : rows[i].date = d}
    IN [k \in DOMAIN index |->
          [date |-> index[k],
           entry_count |-> Cardinality(Group(index[k])),
           author_count |-> Cardinality({rows[i].author : i \in Group(index[k])})]]

\* A total that keeps, per date, the larger of the two roles' values.
MaxByDate(team_size) ==
    LET Before(x, y) == x < y
        index == Sorted({team_size[i].date : i \in DOMAIN team_size}, Before)
        Group(d) == {i \in DOMAIN team_size : team_size[i].date = d}
    IN [k \in DOMAIN index |->
          [date |-> index[k],
           entry_count |-> Max({team_size[i].entry_count : i \in Group(index[k])}),
           author_count |-> Max({team_size[i].author_count : i \in Group(index[k])})]]

\* lines 199-201: groupby(date).sum() of the concatenated role tables, sorted
\* by date: one row per date, each column the sum of the date's rows.
SumByDate(team_size) ==
    LET Before(x, y) == x < y
        index == Sorted({team_size[i].date : i \in DOMAIN team_size}, Before)
        Group(d) == {i \in DOMAIN team_size : team_size[i].date = d}
    IN [k \in DOMAIN index |->
          [date |-> index[k],
           entry_count |-> SumOver(Group(index[k]),
                                   [i \in DOMAIN team_size |-> team_size[i].entry_count]),
           author_count |-> SumOver(Group(index[k]),
                                    [i \in DOMAIN team_size |-> team_size[i].author_count])]]

\* The frame as teamsize leaves it.
TeamsizeFrame(df, actor) == IF "reporter" \in actor THEN BucketDates(df) ELSE df

\* line 177: the id column is looked up in the grouped frame; line 181: so is
\* the discussion column; line 182: the comment of an exploded empty
\* discussion is NaN, and subscripting it raises.
TeamsizeError(df, id_col_name, actor) ==
    IF "reporter" \in actor /\ id_col_name \notin DOMAIN df[1] THEN "KeyError"
    ELSE IF "commenter" \in actor /\ "discussion" \notin DOMAIN df[1] THEN "KeyError"
    ELSE IF "commenter" \in actor /\ ExplodeRaises(df) THEN "TypeError"
    ELSE ""

\* lines 167-201: the table of the roles in actor.
TeamSizeTable(df, actor) ==
    LET author_team_size == IF "reporter" \in actor THEN CountByDate(BucketDates(df)) ELSE <<>>
        comm_team_size == IF "commenter" \in actor THEN CountByDate(TeamsizeComments(df)) ELSE <<>>
    IN SumByDate(author_team_size \o comm_team_size)

\* teamsize(dataframe, id_col_name, "author", "date", actor) on the frame
\* `given`, the caller's table or the table an earlier call returned.
TeamsizeOn(given, id_col_name, actor) ==
    /\ call' = [op |-> "teamsize", actor |-> actor, id_col_name |-> id_col_name,
                given |-> given]
    /\ table' = TeamsizeFrame(given, actor)
    /\ result' = IF TeamsizeError(given, id_col_name, actor) # ""
                 THEN Raised(TeamsizeError(given, id_col_name, actor))
                 ELSE [status |-> "returned", dataframe |-> TeamSizeTable(given, actor)]
    /\ UNCHANGED table0
    /\ PoolUnchanged

Teamsize(actor) ==
    /\ pc = "ready"
    /\ TeamsizeOn(table, "id", actor)
    /\ pc' = "done"

\* Sunday 2018-12-30 (afternoon) and Monday 2018-12-31: two weeks.
TeamsizeStamps == {Stamp(34, 1), Stamp(35, 0)}

\* An issue has no comment, or one comment by either actor in either week.
TeamsizeDiscussions ==
    {<<>>} \cup {<<c>> : c \in Comments({"ann", "bob"}, TeamsizeStamps, {FALSE})}

TeamsizeTables ==
    {WithIds(t) : t \in RowTables(
        {[id |-> 0, author |-> h.author, date |-> h.date, discussion |-> List("dict", d)]
            : h \in Headers({"ann", "bob"}, TeamsizeStamps), d \in TeamsizeDiscussions},
        MaxIssues) \ {<<>>}}

InitTeamsize == table \in TeamsizeTables /\ table0 = table /\ Idle
NextTeamsize == \E actor \in Roles : Teamsize(actor)
SpecTeamsize == InitTeamsize /\ [][NextTeamsize]_vars

TeamsizeReturned == Returned /\ call.op = "teamsize"

\* C12: teamsize gives every entry the bucket date activity gives it: the
\* Sunday that ends the entry's week, shifted back 3 days.
C12_SameBucketAsActivity ==
    (pc = "done" /\ call.op = "teamsize" /\ "reporter" \in call.actor) =>
        \A i \in DOMAIN table :
            table[i].date = Stamp(WeekEnd(Day(table0[i].date)), 0) - ThreeDays


\* The value of a column of a team-size table at a date, 0 when the table has
\* no row for the date.
ValueAt(team_size, d, col) ==
    IF \E i \in DOMAIN team_size : team_size[i].date = d
    THEN team_size[CHOOSE i \in DOMAIN team_size : team_size[i].date = d][col]
    ELSE 0

\* The weeks (by the Sunday that ends them) of the issues and comments of df.
IssueWeeks(df) == {WeekEnd(Day(df[i].date)) : i \in DOMAIN df}
CommentWeeks(df) ==
    UNION {{WeekEnd(Day(c.date)) : c \in Range(df[i].discussion.v)} : i \in DOMAIN df}

BothRolesTeamsize == TeamsizeReturned /\ call.actor = {"reporter", "commenter"}

\* C13: with both roles, teamsize returns one row per week that has an issue or
\* a comment, and the row's entry_count and author_count are the reporter-only
\* value plus the commenter-only value of that week, 0 standing for a week
\* that a role's table lacks.
C13_BothRolesAddPerWeek ==
    BothRolesTeamsize =>
        LET reporters == TeamSizeTable(table0, {"reporter"})
            commenters == TeamSizeTable(table0, {"commenter"})
            both == result.dataframe
        IN /\ Len(both) = Cardinality(IssueWeeks(table0) \cup CommentWeeks(table0))
           /\ \A i, j \in DOMAIN both : i < j => both[i].date < both[j].date
           /\ {both[i].date : i \in DOMAIN both}
                 = {reporters[i].date : i \in DOMAIN reporters}
                   \cup {commenters[i].date : i \in DOMAIN commenters}
           /\ \A i \in DOMAIN both :
                 /\ both[i].entry_count = ValueAt(reporters, both[i].date, "entry_count")
                                          + ValueAt(commenters, both[i].date, "entry_count")
                 /\ both[i].author_count = ValueAt(reporters, both[i].date, "author_count")
                                           + ValueAt(commenters, both[i].date, "author_count")

\* One week has issues and a comment, the other week comments only.
C13_Witness ==
    /\ BothRolesTeamsize
    /\ Len(result.dataframe) = 2
    /\ Cardinality(IssueWeeks(table0)) = 1
    /\ IssueWeeks(table0) \cap CommentWeeks(table0) # {}
    /\ \E i \in DOMAIN result.dataframe : result.dataframe[i].entry_count = 3


-----------------------------------------------------------------------------
(* teamsize on the table that activity returned *)

\* teamsize(a.dataframe, id_col_name, "author", "date") where a is what a
\* single-role activity call returned.
TeamsizeOfActivity(id_col_name) ==
    /\ pc = "done" /\ call.op = "activity" /\ result.status = "returned"
    /\ TeamsizeOn(result.dataframe, id_col_name, {"reporter"})
    /\ pc' = "fed"

SingleRoles == {{"reporter"}, {"commenter"}}

\* The activity table has the columns author, date, count and week_name.
IdColumnNames == {"id", "count"}

InitRoundTrip == InitActivity
NextRoundTrip ==
    \/ \E actor \in SingleRoles : Activity(actor)
    \/ \E id_col_name \in IdColumnNames : TeamsizeOfActivity(id_col_name)
SpecRoundTrip == InitRoundTrip /\ [][NextRoundTrip]_vars

\* The weeks of an activity table in ascending order, and the rows of a week.
ActivityWeeks(rows) ==
    LET Before(x, y) == x < y
    IN Sorted({WeekEnd(Day(rows[i].date)) : i \in DOMAIN rows}, Before)
RowsOfWeek(rows, w) == {i \in DOMAIN rows : WeekEnd(Day(rows[i].date)) = w}
CountOfWeek(rows, w) == SumOver(RowsOfWeek(rows, w), [i \in DOMAIN rows |-> rows[i].count])

\* C14: fed the table of a single-role activity call, teamsize, when it
\* returns, reports for each week an entry_count equal to the sum of that
\* week's activity counts over the actors.
C14_RoundTripSumsCounts ==
    (pc = "fed" /\ result.status = "returned") =>
        /\ Len(result.dataframe) = Len(ActivityWeeks(call.given))
        /\ \A k \in DOMAIN result.dataframe :
              result.dataframe[k].entry_count
                 = CountOfWeek(call.given, ActivityWeeks(call.given)[k])

\* C14, amended: fed the table of a single-role activity call, with a column
\* of that table named as the id column, teamsize returns one row per week of
\* the table, and the week's entry_count and author_count are both the number
\* of the week's activity rows, that is of the actors active in the week; this
\* is at most the sum of the week's counts and equals it only when each of the
\* week's counts is 1.  Named a column the table lacks, teamsize raises.
C14_RoundTripCountsActors ==
    pc = "fed" =>
        IF call.id_col_name \in DOMAIN call.given[1]
        THEN /\ result.status = "returned"
             /\ Len(result.dataframe) = Len(ActivityWeeks(call.given))
             /\ \A k \in DOMAIN result.dataframe :
                   LET w == ActivityWeeks(call.given)[k]
                       n == Cardinality(RowsOfWeek(call.given, w))
                   IN /\ result.dataframe[k].entry_count = n
                      /\ result.dataframe[k].author_count = n
                      /\ n <= CountOfWeek(call.given, w)
                      /\ (n = CountOfWeek(call.given, w)
                            <=> \A i \in RowsOfWeek(call.given, w) : call.given[i].count = 1)
        ELSE result.status = "raised" /\ result.error = "KeyError"

\* Two actors were active in one week, one of them with two entries.
C14_Witness ==
    /\ pc = "fed" /\ result.status = "returned"
    /\ \E k \in DOMAIN result.dataframe : result.dataframe[k].entry_count = 2
    /\ \E i \in DOMAIN call.given : call.given[i].count = 2


-----------------------------------------------------------------------------
(* response (comdaan.py:310-350) *)

\* The first-response cell of an issue: None (NaN in the column), or a date.
NotAnswered == [isna |-> TRUE]
AnsweredAt(d) == [isna |-> FALSE, date |-> d]

\* A frame that keeps the rows in the order the caller gave them.
KeepOrder(issues) == {issues}

\* lines 311-312: sort_values(by=date) with the default sort, which is not
\* stable: the rows in ascending date order, those of equal date in any order;
\* reset_index numbers them from 0.
SortValues(issues) ==
    {[k \in DOMAIN issues |-> issues[p[k]]] : p \in
        {q \in Orderings(DOMAIN issues) :
            \A i, j \in DOMAIN issues : i < j => issues[q[i]].date <= issues[q[j]].date}}

\* A scan that keeps the last comment that qualifies.
FilterLastNote(issue) ==
    LET notes == {k \in DOMAIN issue.discussion.v :
                    /\ issue.discussion.v[k].system
                    /\ issue.discussion.v[k].author # issue.author}
    IN IF notes = {} THEN NotAnswered ELSE AnsweredAt(issue.discussion.v[Max(notes)].date)

\* lines 314-318: the date of the first comment whose "system" flag is set and
\* whose author is not the issue's author.
FilterNotes(issue) ==
    LET notes == {k \in DOMAIN issue.discussion.v :
                    /\ issue.discussion.v[k].system
                    /\ issue.discussion.v[k].author # issue.author}
    IN IF notes = {} THEN NotAnswered ELSE AnsweredAt(issue.discussion.v[Min(notes)].date)

\* A rate that leaves the issue itself out of the answered ones.
GetRatesOfEarlier(issues, first, k) ==
    LET last == Min({i \in DOMAIN issues : issues[i].id = issues[k].id})
        answered == Cardinality({i \in 1..(last - 1) :
                        ~first[i].isna /\ first[i].date <= issues[k].date})
    IN (last - 1) - answered + 1

\* lines 320-328: walking the rows in order up to the first row that has the
\* issue's id, the rows whose first response is dated at or before the issue's
\* date are counted; the value is that row's index (from 0) - the count + 1.
GetRates(issues, first, k) ==
    LET last == Min({i \in DOMAIN issues : issues[i].id = issues[k].id})
        answered == Cardinality({i \in 1..last :
                        ~first[i].isna /\ first[i].date <= issues[k].date})
    IN (last - 1) - answered + 1

\* timedelta / timedelta(hours=1)
HoursPerTick == 24 \div TicksPerDay

\* lines 332-348: the answered issues, each with its date, the hours from its
\* date to its first response, and those hours as (days, hours of the day).
ResponseTime(issues, first) ==
    LET Answered(k) == ~first[k].isna
        kept == SelectSeq([k \in DOMAIN issues |-> k], Answered)
    IN [n \in DOMAIN kept |->
          LET k == kept[n]
              hours == (first[k].date - issues[k].date) * HoursPerTick
          IN [date |-> issues[k].date, response_time |-> hours,
              response_time_formatted |-> <<hours \div 24, hours % 24>>]]

\* response(issues, "id", "author", "date", "discussion"), frac not given.
\* call.issues is the function's local frame, sorted and renumbered.
\* line 343: with no answered issue, 0 ** (-0.75) raises ZeroDivisionError.
Response ==
    /\ pc = "ready"
    /\ \E issues \in SortValues(table) :
          LET first == [k \in DOMAIN issues |-> FilterNotes(issues[k])]
          IN /\ call' = [op |-> "response", issues |-> issues]
             /\ result' =
                   IF ResponseTime(issues, first) = <<>> THEN Raised("ZeroDivisionError")
                   ELSE [status |-> "returned",
                         unanswered_issues |->
                             [k \in DOMAIN issues |->
                                 [date |-> issues[k].date,
                                  unanswered_to_this_date |-> GetRates(issues, first, k)]],
                         response_time |-> ResponseTime(issues, first)]
    /\ pc' = "done"
    /\ UNCHANGED <<table, table0>>
    /\ PoolUnchanged

\* Issues are created on Saturday 2019-01-05 or Sunday 2019-01-06, at midnight.
IssueStamps == {Stamp(40, 0), Stamp(41, 0)}

\* Comments are dated Saturday 2019-01-05 at midnight or in the afternoon, or
\* Monday 2019-01-07.
NoteStamps == {Stamp(40, 0), Stamp(40, 1), Stamp(42, 0)}

\* A discussion is empty, or one comment or system note by either actor, or
\* two system notes of the other actor.
ResponseDiscussions ==
    {<<>>} \cup {<<c>> : c \in Comments({"ann", "bob"}, NoteStamps, {TRUE, FALSE})}
    \cup {<<c, d>> : c \in Comments({"bob"}, {Stamp(42, 0)}, {TRUE}),
                     d \in Comments({"bob"}, {Stamp(40, 1)}, {TRUE})}

ResponseTables ==
    {WithIds(t) : t \in RowTables(
        {[id |-> 0, author |-> h.author, date |-> h.date, discussion |-> List("dict", d)]
            : h \in Headers({"ann"}, IssueStamps), d \in ResponseDiscussions},
        MaxIssues) \ {<<>>}}

InitResponse == table \in ResponseTables /\ table0 = table /\ Idle
NextResponse == Response
SpecResponse == InitResponse /\ [][NextResponse]_vars

ResponseReturned == Returned /\ call.op = "response"

\* C15: the unanswered_to_this_date of the first issue in creation order is at
\* least 1 and at most its index (from 0) + 1.
C15_FirstIssueUnanswered ==
    ResponseReturned =>
        /\ result.unanswered_issues[1].unanswered_to_this_date >= 1
        /\ result.unanswered_issues[1].unanswered_to_this_date <= 0 + 1

\* C15, amended: the unanswered_to_this_date of the issue at index k (from 0)
\* in creation order is k + 1 less the number of issues, among those up to and
\* including it, whose first response is dated at or before its creation date:
\* a value from 0 to k + 1.  For the first issue it is 1, unless the issue's
\* own first response is dated at or before its creation date: then it is 0.
C15_UnansweredWithinIndex ==
    ResponseReturned =>
        LET issues == call.issues
            rows == result.unanswered_issues
            OwnResponseAtCreation(k) ==
                /\ ~FilterNotes(issues[k]).isna
                /\ FilterNotes(issues[k]).date <= issues[k].date
        IN /\ Len(rows) = Len(table0)
           /\ \A k \in DOMAIN rows :
                 /\ rows[k].unanswered_to_this_date >= 0
                 /\ rows[k].unanswered_to_this_date <= (k - 1) + 1
                 /\ rows[k].unanswered_to_this_date =
                       k - Cardinality({i \in 1..k : /\ ~FilterNotes(issues[i]).isna
                                                     /\ FilterNotes(issues[i]).date
                                                            <= issues[k].date})
           /\ rows[1].unanswered_to_this_date = IF OwnResponseAtCreation(1) THEN 0 ELSE 1

\* The first issue's system note by another actor bears the issue's own date,
\* and a later issue is still unanswered.
C15_Witness ==
    /\ ResponseReturned
    /\ result.unanswered_issues[1].unanswered_to_this_date = 0
    /\ Len(result.unanswered_issues) = 2
    /\ result.unanswered_issues[2].unanswered_to_this_date = 1
    /\ call.issues[2].date > call.issues[1].date


-----------------------------------------------------------------------------
(* The bandwidth handed to lowess (comdaan.py:207-210, 276-277, 343-344) *)

\* A bandwidth is held exactly, by its fourth power as the fraction num/den.
\* 10 * n ** (-0.75) is the positive number whose fourth power is 10^4 / n^3.
FourthPower(num, den) == [num |-> num, den |-> den]
Rational(p, q) == FourthPower(p^4, q^4)

\* frac=None, or float(frac) of the frac the caller gave.
NoFrac == [given |-> FALSE]
GivenFrac(p, q) == [given |-> TRUE, value |-> Rational(p, q)]

\* 10 * len(x) ** (-0.75)
DefaultFrac(n) == FourthPower(10^4, n^3)

\* frac < 1
BelowOne(f) == f.num < f.den

\* f <= p/q and f = p/q, for positive values
AtMost(f, p, q) == f.num * q^4 <= p^4 * f.den
Equals(f, p, q) == f.num * q^4 = p^4 * f.den

\* A bandwidth that is the lesser of frac and 0.8.
ClampedFrac(f) == IF AtMost(f, 4, 5) THEN f ELSE Rational(4, 5)

\* frac if frac < 1 else 0.8
FracUsed(f) == IF BelowOne(f) THEN f ELSE Rational(4, 5)

\* The smoothing step of teamsize, centrality or response on a series x of
\* len(x) = Len(table) points.
Lowess(caller, frac) ==
    /\ pc = "ready"
    /\ call' = [op |-> "lowess", caller |-> caller, frac |-> frac]
    /\ result' = [status |-> "returned",
                  frac |-> FracUsed(IF frac.given THEN frac.value
                                    ELSE DefaultFrac(Len(table)))]
    /\ pc' = "done"
    /\ UNCHANGED <<table, table0>>
    /\ PoolUnchanged

MaxLength == 32       \* points of a series handed to lowess

\* The fracs of the repository's tests (0.8 and 0.025), and 1.5.
Fracs == {NoFrac, GivenFrac(4, 5), GivenFrac(1, 40), GivenFrac(3, 2)}

Smoothers == {"teamsize", "centrality", "response"}

InitLowess ==
    /\ \E n \in 1..MaxLength : table = [i \in 1..n |-> Stamp(7 * i, 0)]
    /\ table0 = table /\ Idle
NextLowess == \E caller \in Smoothers, frac \in Fracs : Lowess(caller, frac)
SpecLowess == InitLowess /\ [][NextLowess]_vars

DefaultUsed == Returned /\ call.op = "lowess" /\ ~call.frac.given

\* C16: without a frac from the caller, the bandwidth handed to lowess is
\* 10 * n^(-0.75) clamped to at most 0.8: for every length n >= 1 it does not
\* exceed 0.8.
C16_BandwidthAtMostPoint8 ==
    DefaultUsed => AtMost(result.frac, 4, 5)

\* C16, amended: without a frac from the caller, the bandwidth handed to
\* lowess is 10 * n^(-0.75) when that is below 1, and 0.8 otherwise.  It is
\* 0.8 for n <= 21, it lies above 0.8 and below 1 for n from 22 to 29, and it
\* is at most 0.8 for n >= 30: for every n >= 1 it is below 1.
C16_BandwidthBelowOne ==
    DefaultUsed =>
        LET n == Len(table)
        IN /\ BelowOne(result.frac)
           /\ n <= 21 => Equals(result.frac, 4, 5)
           /\ n >= 22 => result.frac = DefaultFrac(n)
           /\ (n >= 22 /\ n <= 29) => ~AtMost(result.frac, 4, 5)
           /\ n >= 30 => AtMost(result.frac, 4, 5)

\* A series of 22 points gets the bandwidth 10 * 22^(-0.75), about 0.98: more
\* than 0.9.
C16_Witness ==
    /\ DefaultUsed
    /\ Len(table) = 22
    /\ result.frac = DefaultFrac(22)
    /\ ~AtMost(result.frac, 9, 10)


-----------------------------------------------------------------------------
(* GitParser (gitparsing.py:34-199) *)

\* gitparsing.py:39-43: the constructor imports the modules of the rulesets
\* directory, which holds kde.py.
NewParser == [paths |-> <<>>, rulesets |-> <<"kde">>]

\* The one repository of the model, os.path.basename(path).
GitRepository == "repo"

\* What the repository's directory holds as comdaan_ruleset.py: no such file,
\* a module that fails while it is executed, a module whose postprocess_entry
\* renames an author, or a module whose postprocess_entry reads
\* entry["files"][0].
RulesetFiles == {"none", "broken", "alias", "raising"}

\* gitparsing.py:63-71: a module that executes is appended to the rulesets; one
\* that raises is reported on stderr and left out.
RulesetLoads(found) == found \in {"alias", "raising"}

\* rulesets/kde.py:17-24, and the rulesets of the model's repository, which
\* accept every entry.
RulesetAccepts(ruleset, entry) ==
    IF ruleset = "kde"
    THEN "author_email" \in DOMAIN entry /\ entry.author_email # "scripty@kde.org"
    ELSE TRUE

\* rulesets/kde.py:26-28, and the postprocess_entry of the repository's
\* ruleset: the entry as the ruleset leaves it, or the exception it raises.
RulesetPostprocess(ruleset, entry) ==
    CASE ruleset = "kde" ->
            [status |-> "returned",
             entry |-> IF entry.author_name = "Montel Laurent"
                       THEN [entry EXCEPT !.author_name = "Laurent Montel"] ELSE entry]
      [] ruleset = "alias" ->
            [status |-> "returned",
             entry |-> IF entry.author_name = "ann"
                       THEN [entry EXCEPT !.author_name = "Ann"] ELSE entry]
      [] ruleset = "raising" ->
            IF entry.files = <<>> THEN Raised("IndexError")
            ELSE [status |-> "returned", entry |-> entry]

\* gitparsing.py:196-197: every ruleset's postprocess_entry is called on the
\* entry, in order; what one raises leaves the loop.
RECURSIVE ApplyRulesets(_, _)
ApplyRulesets(rulesets, entry) ==
    IF rulesets = <<>> THEN [status |-> "returned", entry |-> entry]
    ELSE LET done == RulesetPostprocess(Head(rulesets), entry)
         IN IF done.status = "raised" THEN done
            ELSE ApplyRulesets(Tail(rulesets), done.entry)

\* gitparsing.py:193-194: strptime with %z, then astimezone(utc).
ToUtc(date) == date.local - date.offset

\* gitparsing.py:174: datetime.now(); the model's commits are older.
Now == Stamp(200, 0)

\* gitparsing.py:158-180, with no start and no end date.
IsEntryAcceptable(entry, rulesets) ==
    /\ \A k \in DOMAIN rulesets : RulesetAccepts(rulesets[k], entry)
    /\ "date" \in DOMAIN entry
    /\ ~(Day(ToUtc(entry.date)) > Day(Now))

\* gitparsing.py:182-199: the paths get the repository's name as prefix (an
\* entry without files gets the empty list), the repository is recorded, the
\* id gets the prefix, the date is converted, and the rulesets are applied.
PostprocessEntry(repository, entry, rulesets) ==
    ApplyRulesets(rulesets,
        [id |-> <<repository, entry.id>>,
         author_name |-> entry.author_name,
         author_email |-> entry.author_email,
         date |-> ToUtc(entry.date),
         message |-> entry.message,
         files |-> IF "files" \in DOMAIN entry
                   THEN [k \in DOMAIN entry.files |-> <<repository, entry.files[k]>>]
                   ELSE <<>>,
         repository |-> repository])

\* gitparsing.py:142-145: the acceptable entries, each postprocessed, in log
\* order; the first exception ends the call.
CreateLogEntries(log, repository, rulesets) ==
    LET Acceptable(entry) == IsEntryAcceptable(entry, rulesets)
        kept == SelectSeq(log, Acceptable)
        done == [k \in DOMAIN kept |-> PostprocessEntry(repository, kept[k], rulesets)]
        failed == {k \in DOMAIN done : done[k].status = "raised"}
    IN IF failed # {} THEN done[Min(failed)]
       ELSE [status |-> "returned", dataframe |-> [k \in DOMAIN done |-> done[k].entry]]

\* The paths handed to add_repository: the repository, a directory without
\* .git, and a value that is not a str.
Paths == {[of |-> "str", v |-> GitRepository], [of |-> "str", v |-> "dir"],
          [of |-> "NoneType", v |-> ""]}

\* gitparsing.py:79-80, 84-86: the ValueError of a call, "" when it has none.
AddRepositoryError(path) ==
    IF path.of # "str" THEN "String expected"
    ELSE IF path.v # GitRepository THEN "Git repository expected"
    ELSE ""

\* gitparsing.py:82: __find_ruleset runs on a str path before .git is looked
\* for, and appends the ruleset module of the directory when it executes.
RulesetsFound(rulesets, path, found) ==
    IF path.of = "str" /\ RulesetLoads(found) THEN Append(rulesets, found) ELSE rulesets

\* gitparsing.py:78-88: add_repository(path) of a path whose directory holds
\* `found` as its ruleset file. A ValueError ends the script.
AddRepository(path, found) ==
    /\ pc = "ready" /\ parser.paths = <<>>
    /\ call' = [op |-> "add_repository", path |-> path, found |-> found]
    /\ parser' = [paths |-> IF AddRepositoryError(path) = ""
                            THEN Append(parser.paths, path.v) ELSE parser.paths,
                  rulesets |-> RulesetsFound(parser.rulesets, path, found)]
    /\ result' = IF AddRepositoryError(path) = "" THEN result ELSE Raised("ValueError")
    /\ pc' = IF AddRepositoryError(path) = "" THEN pc ELSE "done"
    /\ UNCHANGED <<table, table0, dates, results, finished, degrees, sizes>>

\* gitparsing.py:108-113: get_log(); table is what git log prints for the
\* repository, split into rows and fields (lines 126-131).
GetLog ==
    /\ pc = "ready"
    /\ call' = [op |-> "get_log"]
    /\ result' = IF parser.paths = <<>> THEN [status |-> "returned", dataframe |-> <<>>]
                 ELSE CreateLogEntries(table, GitRepository, parser.rulesets)
    /\ pc' = "done"
    /\ UNCHANGED <<table, table0, parser, dates, results, finished, degrees, sizes>>

MaxCommits == 2       \* commits of the repository's log

\* A commit of Saturday 2019-01-05, with its date in UTC or in a zone one tick
\* ahead; a commit that touches no file has no "files" field: strip() takes
\* the trailing separator off the row (line 130).
Commits ==
    {[id |-> 0, author_name |-> a, author_email |-> e, message |-> "m",
      date |-> [local |-> Stamp(40, 1), offset |-> o]]
        : a \in {"Montel Laurent", "ann"}, e \in {"scripty@kde.org", "ann@kde.org"},
          o \in {0, 1}}
GitLogs ==
    {WithIds(t) : t \in RowTables(
        Commits \cup {[f \in DOMAIN c \cup {"files"} |->
                          IF f = "files" THEN <<"f">> ELSE c[f]] : c \in Commits},
        MaxCommits) \ {<<>>}}

InitGit ==
    /\ table \in GitLogs /\ table0 = table
    /\ call = NoCall /\ pc = "ready" /\ result = NoResult
    /\ dates = <<>> /\ results = <<>> /\ finished = <<>>
    /\ degrees = <<>> /\ sizes = <<>>
    /\ parser = NewParser
NextGit ==
    \/ \E path \in Paths : \E found \in (IF path.of = "str" THEN RulesetFiles ELSE {"none"}) :
             AddRepository(path, found)
    \/ GetLog
SpecGit == InitGit /\ [][NextGit]_vars

\* C17: when a ruleset's postprocess_entry raises on an entry, get_log does
\* not raise: it returns the log, with the entry in it.
C17_TransformErrorNotPropagated ==
    (pc = "done" /\ call.op = "get_log" /\ parser.paths # <<>>) =>
        LET Acceptable(entry) == IsEntryAcceptable(entry, parser.rulesets)
        IN /\ result.status = "returned"
           /\ Len(result.dataframe) = Len(SelectSeq(table0, Acceptable))


-----------------------------------------------------------------------------
(* centrality: windows, series dates, the name's column *)

KnownName == call.op = "centrality" /\ ~NameUnknown(table0, call.name)

\* C18: for a table whose actor column has the name, centrality builds at
\* least one window and completes, also when the entries lie in one calendar
\* month or in two consecutive months.
C18_WindowsBuilt ==
    (KnownName /\ pc = "done") =>
        /\ dates # <<>>
        /\ ~(result.status = "raised" /\ result.error = "IndexError" /\ results = <<>>)

\* line 233, 239: a date plus the radius of the call's windows, one week when
\* the months of the table span less than two months and one month otherwise.
PlusRadius(df, t) ==
    LET min_date == Min({df[i].date : i \in DOMAIN df})
        max_date == Max({df[i].date : i \in DOMAIN df})
    IN IF AddMonths(max_date, 0 - 2) < min_date THEN t + Week ELSE AddMonths(t, 1)

\* C19: every entry of the centrality series and of the size series bears the
\* centre date of its window: the window's start plus one radius.
C19_SeriesAtWindowCentre ==
    SeriesReturned =>
        \A i \in DOMAIN dates :
            /\ result.centrality[i].date = PlusRadius(table, dates[i][1])
            /\ result.size[i].date = PlusRadius(table, dates[i][1])

\* C20: for a name of the actor column, when every window's graph is built,
\* centrality returns a value per window: the name's degree centrality in the
\* window's graph, and 0.0 for a window whose graph lacks the name, also when
\* every window's graph lacks it.
C20_ValueForEveryWindow ==
    (/\ KnownName /\ pc = "done" /\ dates # <<>>
     /\ \A i \in DOMAIN dates : WindowBuild(i).status = "returned")
        => /\ result.status = "returned"
           /\ Len(result.centrality) = Len(dates)
           /\ \A i \in DOMAIN dates :
                 result.centrality[i].value =
                    LET dc == DegreeCentrality(WindowBuild(i).graph)
                    IN IF call.name \in DOMAIN dc THEN dc[call.name] ELSE Frac(0, 1)


-----------------------------------------------------------------------------
(* The graph of an issues table whose discussions have several comments *)

\* A discussion of no, one or two comments by either actor.
ShortDiscussions ==
    LET C == Comments({"ann", "bob"}, {NetworkStamp}, {FALSE})
    IN {<<>>} \cup {<<c>> : c \in C} \cup {<<c, d>> : c \in C, d \in C}

DiscussionTables ==
    {WithIds(t) : t \in RowTables(
        {[id |-> 0, author |-> a, date |-> NetworkStamp, discussion |-> List("dict", d)]
            : a \in {"ann", "bob"}, d \in ShortDiscussions},
        MaxIssues) \ {<<>>}}

InitDiscussion == table \in DiscussionTables /\ table0 = table /\ Idle
NextDiscussion == NetworkIssues
SpecDiscussion == InitDiscussion /\ [][NextDiscussion]_vars

\* The number of comments by b on the issues of a.
CommentsOn(df, a, b) ==
    SumOver({i \in DOMAIN df : df[i].author = a},
            [i \in DOMAIN df |->
                Cardinality({k \in DOMAIN df[i].discussion.v :
                                df[i].discussion.v[k].author = b})])

\* C21: in the graph of an issues table, the edge between an issue author a
\* and a commenter b has as weight the number of comments by b on the issues
\* of a.
C21_WeightCountsComments ==
    (Returned /\ call.op = "network" /\ call.target_col_name = "discussion") =>
        \A a, b \in {"ann", "bob", "cy"} :
            CommentsOn(table0, a, b) > 0 =>
                \E e \in result.graph.edges :
                    e.ends = {a, b} /\ e.weight = CommentsOn(table0, a, b)


-----------------------------------------------------------------------------
(* The graph of a mail table *)

\* The message ids a sender authored, and those the sender's mails reference.
Authored(df, a) == {df[i].message_id.v : i \in {j \in DOMAIN df : df[j].author = a}}
Referenced(df, a) == UNION {df[i].references.v : i \in {j \in DOMAIN df : df[j].author = a}}

Senders(df) == {df[i].author : i \in DOMAIN df}

MailReturned == Returned /\ call.op = "network" /\ call.target_col_name = "references"

EdgeWeights(graph, a, b) == {e.weight : e \in {x \in graph.edges : x.ends = {a, b}}}

-----------------------------------------------------------------------------
(* response: the backlog and the first responses *)

\* The comments of an issue that count as a response: flagged system, by
\* another author than the issue's.
Qualifying(issue) ==
    {k \in DOMAIN issue.discussion.v :
        issue.discussion.v[k].system /\ issue.discussion.v[k].author # issue.author}

\* The issue has a first response, dated at or before t.
RespondedBy(issue, t) ==
    \E k \in Qualifying(issue) :
        /\ \A m \in Qualifying(issue) : k <= m
        /\ issue.discussion.v[k].date <= t

\* C23: the issue at position i (from 0) in ascending creation order gets
\* unanswered_to_this_date = i - a + 1, a being the number of issues at
\* positions 0..i whose first response is dated at or before the creation of
\* issue i: the number of issues created up to and including issue i without
\* a response by then.
C23_BacklogFormula ==
    ResponseReturned =>
        LET issues == call.issues
            rows == result.unanswered_issues
        IN /\ Len(issues) = Len(table0) /\ Range(issues) = Range(table0)
           /\ \A i, j \in DOMAIN issues : i < j => issues[i].date <= issues[j].date
           /\ DOMAIN rows = DOMAIN issues
           /\ \A k \in DOMAIN rows :
                 LET a == Cardinality({i \in 1..k : RespondedBy(issues[i], issues[k].date)})
                 IN /\ rows[k].date = issues[k].date
                    /\ rows[k].unanswered_to_this_date = (k - 1) - a + 1
                    /\ rows[k].unanswered_to_this_date =
                          Cardinality({i \in 1..k : ~RespondedBy(issues[i], issues[k].date)})

\* The table lists the later issue first; the earlier one has its response
\* before the later one is created, and the later one has none by then.
C23_Witness ==
    /\ ResponseReturned
    /\ Len(table0) = 2 /\ table0[1].date > table0[2].date
    /\ RespondedBy(table0[2], table0[1].date)
    /\ ~RespondedBy(table0[2], table0[2].date)
    /\ result.unanswered_issues[2].unanswered_to_this_date = 1
    /\ result.unanswered_issues[1].unanswered_to_this_date = 1


\* The positions, in creation order, of the issues that have a response.
RespondedPositions(issues) ==
    LET Responded(k) == Qualifying(issues[k]) # {}
    IN SelectSeq([k \in DOMAIN issues |-> k], Responded)

\* C24: the first-response time of an issue is the timestamp of the first
\* comment, in discussion order, that is flagged system and is not by the
\* issue's author, and null without such a comment; the response-time series
\* has the issues with a first response, and no other.
C24_FirstQualifyingComment ==
    ResponseReturned =>
        LET issues == call.issues
            kept == RespondedPositions(issues)
            series == result.response_time
        IN /\ Len(series) = Len(kept)
           /\ \A n \in DOMAIN series :
                 LET issue == issues[kept[n]]
                     first == CHOOSE k \in Qualifying(issue) :
                                 \A m \in Qualifying(issue) : k <= m
                 IN /\ series[n].date = issue.date
                    /\ series[n].response_time =
                          (issue.discussion.v[first].date - issue.date) * HoursPerTick

\* One issue has two system notes by another actor, the first of them dated
\* after the second; the other issue has a comment that does not qualify.
C24_Witness ==
    /\ ResponseReturned
    /\ Len(table0) = 2 /\ Len(result.response_time) = 1
    /\ \E i \in DOMAIN table0 :
          /\ Cardinality(Qualifying(table0[i])) = 2
          /\ table0[i].discussion.v[1].date > table0[i].discussion.v[2].date
    /\ \E i \in DOMAIN table0 :
          Qualifying(table0[i]) = {} /\ table0[i].discussion.v # <<>>


-----------------------------------------------------------------------------
(* activity: the date and the week name of a row *)

\* The ISO year and week of a day, by the rule that week 1 of a year is the
\* Monday-to-Sunday week that holds January 4th.
FirstIsoMonday(y) == LET jan4 == YearStarts[y] + 3 IN jan4 - Weekday(jan4)
IsoWeekOfDay(d) ==
    LET monday == d - Weekday(d)
        y == CHOOSE x \in {2018, 2019} :
                FirstIsoMonday(x) <= monday /\ monday < FirstIsoMonday(x + 1)
    IN <<y, ((monday - FirstIsoMonday(y)) \div 7) + 1>>

\* The days of the entries of an actor among the roles selected, one element
\* per entry.
EntryDays(df, actor, a) ==
    {<<"issue", i, Day(df[i].date)>> :
        i \in {j \in DOMAIN df : "reporter" \in actor /\ df[j].author = a}}
    \cup UNION {{<<"comment", i, k, Day(df[i].discussion.v[k].date)>> :
                    k \in {m \in DOMAIN df[i].discussion.v : df[i].discussion.v[m].author = a}}
                 : i \in {j \in DOMAIN df : "commenter" \in actor}}
DayOf(entry) == entry[Len(entry)]

\* C25: a row of the activity table is dated the Sunday that ends its week
\* minus 3 days, its week_name is the ISO (year, week) of that date, and that
\* ISO week is the Monday-to-Sunday week of every entry counted in the row,
\* also across a year boundary.
C25_RowDateAndWeekName ==
    (Returned /\ call.op = "activity") =>
        \A n \in DOMAIN result.dataframe :
            LET row == result.dataframe[n]
                thursday == Day(row.date)
                counted == {e \in EntryDays(table0, call.actor, row.author) :
                               thursday - 3 <= DayOf(e) /\ DayOf(e) <= thursday + 3}
            IN /\ row.date = Stamp(thursday, 0)
               /\ Weekday(thursday) = 3
               /\ row.week_name = IsoWeekOfDay(thursday)
               /\ row.count = Cardinality(counted) /\ counted # {}
               /\ \A e \in counted :
                     /\ WeekEnd(DayOf(e)) - 3 = thursday
                     /\ IsoWeekOfDay(DayOf(e)) = row.week_name

\* A row of ISO week 2019-1 counts an entry of Monday 2018-12-31 and one of
\* Wednesday 2019-01-02; another row is of ISO week 2018-52.
C25_Witness ==
    /\ Returned /\ call.op = "activity"
    /\ \E n \in DOMAIN result.dataframe :
          LET row == result.dataframe[n]
          IN /\ row.week_name = <<2019, 1>> /\ row.count = 2
             /\ {DayOf(e) : e \in EntryDays(table0, call.actor, row.author)} = {35, 37}
    /\ \E n \in DOMAIN result.dataframe : result.dataframe[n].week_name = <<2018, 52>>


-----------------------------------------------------------------------------
(* teamsize, twice on the same table (tests/test_api_teamsize.py:112-116) *)

\* The second of two calls with the same arguments: the caller keeps what the
\* first call returned (`first`) and hands teamsize the same frame object,
\* which by now is what the first call left in it.
TeamsizeAgain ==
    /\ pc = "done" /\ call.op = "teamsize" /\ result.status = "returned"
    /\ call' = [op |-> "teamsize", actor |-> call.actor, id_col_name |-> call.id_col_name,
                given |-> table, first |-> result]
    /\ table' = TeamsizeFrame(table, call.actor)
    /\ result' = IF TeamsizeError(table, call.id_col_name, call.actor) # ""
                 THEN Raised(TeamsizeError(table, call.id_col_name, call.actor))
                 ELSE [status |-> "returned", dataframe |-> TeamSizeTable(table, call.actor)]
    /\ pc' = "again"
    /\ UNCHANGED table0
    /\ PoolUnchanged

NextTeamsizeTwice ==
    \/ \E actor \in Roles : Teamsize(actor)
    \/ TeamsizeAgain
SpecTeamsizeTwice == InitTeamsize /\ [][NextTeamsizeTwice]_vars

\* C26: the second of two teamsize calls in a row, same arguments and same
\* table, returns a table equal to the first call's.
C26_SecondCallEqualsFirst ==
    pc = "again" =>
        /\ result.status = "returned"
        /\ result.dataframe = call.first.dataframe


-----------------------------------------------------------------------------
(* The graph of a mail table: who references whom *)

\* C27: in the graph of a mail table two senders are joined by an edge
\* whenever a message of either of them references a message of the other,
\* whichever of the two names sorts first.
C27_EdgeForEitherDirection ==
    MailReturned =>
        \A a, b \in Senders(table0) :
            (a # b /\ Referenced(table0, a) \cap Authored(table0, b) # {}) =>
                /\ EdgeWeights(result.graph, a, b) # {}
                /\ EdgeWeights(result.graph, b, a) # {}


-----------------------------------------------------------------------------
(* Degree centrality as a value of the unit interval *)

InUnitInterval(f) == f.den > 0 /\ 0 <= f.num /\ f.num <= f.den

\* C28: every value of the table network returns, and every value of a
\* window's graph that centrality collects before smoothing, lies between 0
\* and 1 inclusive, also when an issue's author comments on their own issue.
C28_ValuesInUnitInterval ==
    /\ (Returned /\ call.op = "network") =>
          \A v \in DOMAIN result.dataframe : InUnitInterval(result.dataframe[v])
    /\ \A i \in DOMAIN degrees :
          \A v \in DOMAIN degrees[i] : InUnitInterval(degrees[i][v])


-----------------------------------------------------------------------------
(* response on a table where no issue is answered *)

\* C29: response returns both series for every non-empty issue table, also
\* when no issue has a qualifying first response; the response-time series is
\* empty then and the backlog has one row per issue.
C29_ReturnsWithoutAnswer ==
    (pc = "done" /\ call.op = "response") =>
        /\ result.status = "returned"
        /\ (\A i \in DOMAIN call.issues : Qualifying(call.issues[i]) = {}) =>
              /\ result.response_time = <<>>
              /\ Len(result.unanswered_issues) = Len(call.issues)


-----------------------------------------------------------------------------
(* add_repository that raises *)

\* C30: when add_repository raises ValueError (the path is not a string, or
\* its directory has no .git), the parser is as before the call: neither the
\* list of repositories nor the list of rulesets has gained an element.
C30_ValueErrorLeavesParser ==
    [][(call'.op = "add_repository" /\ pc = "ready" /\ result'.status = "raised")
          => (parser'.paths = parser.paths /\ parser'.rulesets = parser.rulesets)]_vars
====
